---- MODULE Spec2Model ----
(***************************************************************************)
(* State-machine model of @asasvirtuais/react: the single-flight guards    *)
(* useAction (hooks.ts) and useMethod (crud.tsx), the keyed store useIndex *)
(* (hooks.ts) and the table handle useTableProvider (crud.tsx).            *)
(*                                                                         *)
(* React keeps two things apart, and so does the model: the state of a     *)
(* hook (what setX has made of it) and the value published by the last     *)
(* render, which is what the closures handed to consumers have captured.   *)
(* A render is a step of React's scheduler, not of the handler that asked  *)
(* for it.                                                                 *)
(***************************************************************************)
EXTENDS Integers, Sequences, FiniteSets, TLC

VARIABLES
    cfg,          \* useAction options: autoTrigger, onSuccess, rest props
    action,       \* useAction state: loading, error, result, defaults
    actionPub,    \* what the last render of useAction published
    mounted,      \* whether the mount effect of useAction has run
    calls,        \* every call of useAction's trigger, in order
    successLog,   \* arguments onSuccess was called with, in order
    store,        \* useIndex state: the index object
    storeLast,    \* the last operation applied to the store, with its pre-state
    index,        \* per table: the index object of useTableProvider
    asAbove,      \* per table: the asAbove prop of useTableProvider
    tableMounted, \* whether the mount effects of the table providers have run
    method,       \* per table and operation: useMethod state loading, error, result
    methodPub,    \* per table and operation: what the last render published
    mcalls,       \* every call of a useMethod trigger, in order
    lastProps,    \* what the last call of a useMethod trigger was given
    unmounted,    \* whether the table providers have been unmounted
    providers,    \* the Providers enclosing a component, outermost first
    access,       \* the last call of an Accessor in that component
    singleProps,  \* SingleProvider: its props id and table
    single,       \* useSingleProvider state: single
    singlePub,    \* the value.single of the last render of SingleProvider
    singleMounted,\* whether SingleProvider has rendered and run its effect
    children,     \* whether the last render of SingleProvider rendered its children
    singleCall,   \* the call of find.trigger its effect made (0: none)
    formProps,    \* FormProvider / CreateForm: which props were given
    fields,       \* useFieldsProvider state: fields
    fieldsPub,    \* the fields of the last render of FieldsProvider
    form,         \* useFormHook state: result, loading, error
    formPub,      \* what the last render of FormProvider published
    submits,      \* every call of submit, in order
    formLog       \* arguments the onSuccess of the form was called with, in order

actionVars == <<cfg, action, actionPub, mounted, calls, successLog>>
storeVars == <<store, storeLast>>
tableVars == <<index, asAbove, tableMounted, method, methodPub, mcalls, lastProps, unmounted>>
contextVars == <<providers, access>>
singleVars == <<singleProps, single, singlePub, singleMounted, children, singleCall>>
formVars == <<formProps, fields, fieldsPub, form, formPub, submits, formLog>>
\* what the useAction steps leave alone
notActionVars == <<storeVars, tableVars, contextVars, singleVars, formVars>>
\* what the useIndex steps leave alone
notStoreVars == <<actionVars, tableVars, contextVars, singleVars, formVars>>
\* what the table steps leave alone
notTableVars == <<actionVars, storeVars, contextVars, singleVars, formVars>>
\* what the context steps leave alone
notContextVars == <<actionVars, storeVars, tableVars, singleVars, formVars>>
\* what the steps of SingleProvider, which work on a table, leave alone
notSingleVars == <<actionVars, storeVars, contextVars, formVars>>
\* what the steps of the forms leave alone, the table apart
notFormVars == <<actionVars, storeVars, contextVars, singleVars>>
vars == <<actionVars, storeVars, tableVars, contextVars, singleVars, formVars>>

----------------------------------------------------------------------------
(* Bounds *)

MaxCalls == 2

----------------------------------------------------------------------------
(* JavaScript values *)

Undefined == [tag |-> "undefined"]
Null == [tag |-> "null"]
Str(s) == [tag |-> "str", s |-> s]
Err(m) == [tag |-> "err", m |-> m]
Obj(o) == [tag |-> "obj", o |-> o]

\* An object literal without own keys: {}
EmptyObj == <<>>

\* Object spread { ...a, ...b }: the keys of both, b's value on collision.
Spread(a, b) ==
    [k \in (DOMAIN a) \cup (DOMAIN b) |-> IF k \in DOMAIN b THEN b[k] ELSE a[k]]

----------------------------------------------------------------------------
(* useAction: hooks.ts *)

DefaultsSet == {EmptyObj, [param |-> Str("test")]}
InputSet == {EmptyObj, [additional |-> Str("data"), param |-> Str("mine")]}
ActionResults == {Str("success"), Str("again")}
ActionErrors == {Err("Test error")}

\* The options object is destructured into onSuccess, autoTrigger and the
\* rest, `props`, which therefore still holds the key `defaults` when given.
RestProps(given, d) == IF given THEN [defaults |-> Obj(d)] ELSE EmptyObj

\* useState(props.defaults ?? {})
InitialDefaults(given, d) == IF given THEN d ELSE EmptyObj

ActionInit ==
    /\ \E auto \in BOOLEAN, ons \in BOOLEAN, given \in BOOLEAN, d \in DefaultsSet :
         /\ given \/ d = EmptyObj
         /\ cfg = [autoTrigger |-> auto, onSuccess |-> ons, props |-> RestProps(given, d)]
         /\ action = [loading |-> FALSE, error |-> Undefined, result |-> Undefined,
                      defaults |-> InitialDefaults(given, d)]
    /\ actionPub = action
    /\ mounted = FALSE
    /\ calls = <<>>
    /\ successLog = <<>>

\* A call of trigger: what was passed, whether the wrapped action was invoked
\* and with which payload, and what the promise it returned settled to.
\*   st = "flight"    the action is invoked and not yet settled
\*   st = "fulfilled" the promise of trigger resolved with ret
\*   st = "rejected"  the promise of trigger rejected with ret
\*   settled, val     how the wrapped operation ended ("ok", "fail") and with what
NewCall(by, input, invoked, payload) ==
    [by |-> by, input |-> input, invoked |-> invoked, payload |-> payload,
     st |-> IF invoked THEN "flight" ELSE "fulfilled", ret |-> Undefined,
     settled |-> "none", val |-> Undefined]

\* if (loading) return -- `loading` is the one the closure captured.
ActionDropsNever(pub) == FALSE

ActionDrops(pub) == pub.loading

ActionPayloadInputWins(input, pub) == Spread(pub.defaults, input)

\* action({ ...props, ...defaults }) -- `defaults` is the one the closure captured.
ActionPayload(input, pub) == Spread(input, pub.defaults)

\* trigger, up to its await (hooks.ts 19-27)
TriggerCall(by, input) ==
    IF ActionDrops(actionPub)
    THEN /\ calls' = Append(calls, NewCall(by, input, FALSE, EmptyObj))
         /\ UNCHANGED action
    ELSE /\ calls' = Append(calls, NewCall(by, input, TRUE, ActionPayload(input, actionPub)))
         /\ action' = [action EXCEPT !.loading = TRUE]

\* A consumer calls the published trigger.
Trigger(input) ==
    /\ Len(calls) < MaxCalls
    /\ TriggerCall("consumer", input)
    /\ UNCHANGED <<cfg, actionPub, mounted, successLog>>
    /\ UNCHANGED notActionVars

\* The input the mount effect passes to trigger: the rest props.
AutoTriggerInput == cfg.props

\* useEffect(() => { if (autoTrigger) trigger(props) }, [])
MountEffect ==
    /\ ~mounted
    /\ mounted' = TRUE
    /\ IF cfg.autoTrigger
       THEN TriggerCall("mount", AutoTriggerInput)
       ELSE UNCHANGED <<calls, action>>
    /\ UNCHANGED <<cfg, actionPub, successLog>>
    /\ UNCHANGED notActionVars

InFlight(cs) == {i \in DOMAIN cs : cs[i].st = "flight"}

\* The promise trigger returns when the action resolved with r: return result
ActionFulfilRet(r) == r

\* The action resolves with r: setResult, onSuccess, return result; finally
\* setLoading(false) (hooks.ts 29-32, 37-39)
Resolve(i, r) ==
    /\ i \in InFlight(calls)
    /\ action' = [action EXCEPT !.result = r, !.loading = FALSE]
    /\ successLog' = IF cfg.onSuccess THEN Append(successLog, r) ELSE successLog
    /\ calls' = [calls EXCEPT ![i].st = "fulfilled", ![i].ret = ActionFulfilRet(r),
                              ![i].settled = "ok", ![i].val = r]
    /\ UNCHANGED <<cfg, actionPub, mounted>>
    /\ UNCHANGED notActionVars

\* catch (error) { setError(error) }: what it makes of the error state
ActionCatch(old, e) == e

RejectCallsOnSuccess(i, e) ==
    /\ i \in InFlight(calls)
    /\ action' = [action EXCEPT !.error = ActionCatch(action.error, e), !.loading = FALSE]
    /\ successLog' = IF cfg.onSuccess THEN Append(successLog, Undefined) ELSE successLog
    /\ calls' = [calls EXCEPT ![i].st = "fulfilled", ![i].ret = Undefined,
                              ![i].settled = "fail", ![i].val = e]
    /\ UNCHANGED <<cfg, actionPub, mounted>>
    /\ UNCHANGED notActionVars

\* The action rejects with e: the catch block stores the error and does not
\* throw again, so the promise of trigger resolves with undefined; finally
\* setLoading(false) (hooks.ts 34-39)
Reject(i, e) ==
    /\ i \in InFlight(calls)
    /\ action' = [action EXCEPT !.error = ActionCatch(action.error, e), !.loading = FALSE]
    /\ calls' = [calls EXCEPT ![i].st = "fulfilled", ![i].ret = Undefined,
                              ![i].settled = "fail", ![i].val = e]
    /\ UNCHANGED <<cfg, actionPub, mounted, successLog>>
    /\ UNCHANGED notActionVars

SetDefaultsResets(d) ==
    /\ d # action.defaults
    /\ action' = [action EXCEPT !.defaults = d, !.loading = FALSE]
    /\ UNCHANGED <<cfg, actionPub, mounted, calls, successLog>>
    /\ UNCHANGED notActionVars

\* setDefaults(d): the state setter of useState
SetDefaults(d) ==
    /\ d # action.defaults
    /\ action' = [action EXCEPT !.defaults = d]
    /\ UNCHANGED <<cfg, actionPub, mounted, calls, successLog>>
    /\ UNCHANGED notActionVars

\* React renders the hook again after a state change and publishes the new
\* value; trigger is rebuilt over the new loading and defaults.
Render ==
    /\ mounted
    /\ actionPub # action
    /\ actionPub' = action
    /\ UNCHANGED <<cfg, action, mounted, calls, successLog>>
    /\ UNCHANGED notActionVars

ActionNext ==
    \/ \E input \in InputSet : Trigger(input)
    \/ MountEffect
    \/ \E i \in DOMAIN calls, r \in ActionResults : Resolve(i, r)
    \/ \E i \in DOMAIN calls, e \in ActionErrors : Reject(i, e)
    \/ \E d \in DefaultsSet : SetDefaults(d)
    \/ Render

StoreIdle == store = <<>> /\ storeLast = <<>>

ContextIdle == providers = <<>> /\ access = <<>>

SingleIdle ==
    /\ singleProps = <<>>
    /\ single = <<>>
    /\ singlePub = <<>>
    /\ singleMounted = FALSE
    /\ children = FALSE
    /\ singleCall = 0

FormIdle ==
    /\ formProps = <<>>
    /\ fields = <<>>
    /\ fieldsPub = <<>>
    /\ form = <<>>
    /\ formPub = <<>>
    /\ submits = <<>>
    /\ formLog = <<>>

TableIdle ==
    /\ index = <<>>
    /\ asAbove = <<>>
    /\ tableMounted = FALSE
    /\ method = <<>>
    /\ methodPub = <<>>
    /\ mcalls = <<>>
    /\ lastProps = EmptyObj
    /\ unmounted = FALSE

InitAction == ActionInit /\ StoreIdle /\ TableIdle /\ ContextIdle /\ SingleIdle /\ FormIdle

SpecAction == InitAction /\ [][ActionNext]_vars

----------------------------------------------------------------------------
(* JavaScript objects used as maps, in property order *)

\* An object is the sequence of its own properties [key, val] in the order
\* Object.values and spread enumerate them: the keys that are array indices
\* ("1", "2", ...) first, in ascending numeric order, then the other string
\* keys in the order they were created.
ArrayIndexValue == ("1" :> 1) @@ ("2" :> 2)
IsArrayIndex(k) == k \in DOMAIN ArrayIndexValue

ObjHas(o, k) == \E i \in 1..Len(o) : o[i].key = k
ObjGet(o, k) == IF ObjHas(o, k) THEN o[CHOOSE i \in 1..Len(o) : o[i].key = k].val ELSE Undefined
ObjKeySet(o) == {o[i].key : i \in 1..Len(o)}

\* The place a new key takes.
ObjInsertAt(o, k) ==
    IF IsArrayIndex(k)
    THEN 1 + Cardinality({i \in 1..Len(o) :
                 IsArrayIndex(o[i].key) /\ ArrayIndexValue[o[i].key] < ArrayIndexValue[k]})
    ELSE Len(o) + 1

\* o[k] = v
ObjPut(o, k, v) ==
    IF ObjHas(o, k)
    THEN [i \in 1..Len(o) |-> IF o[i].key = k THEN [key |-> k, val |-> v] ELSE o[i]]
    ELSE LET at == ObjInsertAt(o, k)
         IN SubSeq(o, 1, at - 1) \o <<[key |-> k, val |-> v]>> \o SubSeq(o, at, Len(o))

\* delete o[k]
ObjDelete(o, k) == SelectSeq(o, LAMBDA p : p.key # k)

\* { ...a, ...b }
RECURSIVE ObjSpread(_, _)
ObjSpread(a, b) ==
    IF b = <<>> THEN a ELSE ObjSpread(ObjPut(a, Head(b).key, Head(b).val), Tail(b))

\* Object.fromEntries(entries)
ObjFromEntries(entries) == ObjSpread(<<>>, entries)

\* Object.values(o)
ObjValues(o) == [i \in 1..Len(o) |-> o[i].val]

----------------------------------------------------------------------------
(* useIndex: hooks.ts *)

MaxArgs == 2

Ids == {"1", "2", "a"}

\* An entity; its id is a string, or undefined when the record has none.
Ent(id, name) == [tag |-> "ent", id |-> id, name |-> name]
Entities == {Ent(Str(k), "x") : k \in Ids} \cup {Ent(Str("1"), "y")}
EntitiesNoId == {Ent(Undefined, "x")}

\* The property key an id is turned into: String(id)
KeyOf(id) == IF id.tag = "str" THEN id.s ELSE "undefined"

\* params.map(data => [data.id, data])
EntriesOf(params) == [i \in 1..Len(params) |-> [key |-> KeyOf(params[i].id), val |-> params[i]]]

IndexSetByName(prev, params) ==
    ObjSpread(prev, ObjFromEntries(
        [i \in 1..Len(params) |-> [key |-> params[i].name, val |-> params[i]]]))

IndexSetKeepsOld(prev, params) == ObjSpread(ObjFromEntries(EntriesOf(params)), prev)

\* set: prev => ({ ...prev, ...Object.fromEntries(params.map(...)) })
IndexSet(prev, params) == ObjSpread(prev, ObjFromEntries(EntriesOf(params)))

IndexRemoveFirstOnly(prev, params) ==
    IF params = <<>> THEN prev ELSE ObjDelete(prev, KeyOf(Head(params).id))

\* remove: copy prev, then for each param: if (newState[id]) delete newState[id]
RECURSIVE IndexRemove(_, _)
IndexRemove(prev, params) ==
    IF params = <<>> THEN prev
    ELSE LET k == KeyOf(Head(params).id)
         IN IndexRemove(IF ObjHas(prev, k) THEN ObjDelete(prev, k) ELSE prev, Tail(params))

IndexArrayOfIdentified(idx) == SelectSeq(ObjValues(idx), LAMBDA e : e.id # Undefined)

\* array: useMemo(() => Object.values(index), [index])
IndexArray(idx) == ObjValues(idx)

\* The mappings a store is created from, and setIndex is given: each key
\* holds an entity with that id.
Mapping(es) == ObjFromEntries(EntriesOf(es))
Mappings ==
    {Mapping(<<>>), Mapping(<<Ent(Str("1"), "x")>>),
     Mapping(<<Ent(Str("1"), "x"), Ent(Str("2"), "x")>>),
     Mapping(<<Ent(Str("a"), "x"), Ent(Str("2"), "x")>>)}

ParamSeqs == UNION {[1..n -> Entities \cup EntitiesNoId] : n \in 1..MaxArgs}

StoreInit ==
    /\ store \in Mappings
    /\ storeLast = [op |-> "create", args |-> <<>>, pre |-> <<>>]

\* set(...params)
StoreSet(params) ==
    /\ store' = IndexSet(store, params)
    /\ storeLast' = [op |-> "set", args |-> params, pre |-> store]
    /\ UNCHANGED notStoreVars

\* remove(...params)
StoreRemove(params) ==
    /\ store' = IndexRemove(store, params)
    /\ storeLast' = [op |-> "remove", args |-> params, pre |-> store]
    /\ UNCHANGED notStoreVars

StoreSetIndexMerges(m) ==
    /\ store' = ObjSpread(store, m)
    /\ storeLast' = [op |-> "setIndex", args |-> m, pre |-> store]
    /\ UNCHANGED notStoreVars

\* setIndex(m): the state setter of useState; args holds the mapping given
StoreSetIndex(m) ==
    /\ store' = m
    /\ storeLast' = [op |-> "setIndex", args |-> m, pre |-> store]
    /\ UNCHANGED notStoreVars

StoreNext ==
    \/ \E params \in ParamSeqs : StoreSet(params)
    \/ \E params \in ParamSeqs : StoreRemove(params)
    \/ \E m \in Mappings : StoreSetIndex(m)

ActionIdle ==
    /\ cfg = [autoTrigger |-> FALSE, onSuccess |-> FALSE, props |-> EmptyObj]
    /\ action = [loading |-> FALSE, error |-> Undefined, result |-> Undefined,
                 defaults |-> EmptyObj]
    /\ actionPub = action
    /\ mounted = FALSE
    /\ calls = <<>>
    /\ successLog = <<>>

InitIndex == StoreInit /\ ActionIdle /\ TableIdle /\ ContextIdle /\ SingleIdle /\ FormIdle

SpecIndex == InitIndex /\ [][StoreNext]_vars

----------------------------------------------------------------------------
(* StoreProvider: store.tsx *)

\* The lists of entities a table of the StoreProvider is given.
InitialLists ==
    {<<>>, <<Ent(Str("1"), "x")>>, <<Ent(Str("1"), "x"), Ent(Str("2"), "x")>>,
     <<Ent(Str("a"), "x"), Ent(Str("2"), "x")>>}

\* What useStoreProvider passes to useIndex for a table: { initial: initial }
StoreProviderValue(initial) == <<[key |-> "initial", val |-> [tag |-> "arr", a |-> initial]]>>

\* [table, useIndex({ initial: initial })]: the store of one table, whose
\* state starts as the object it was passed (useState(() => value)).
StoreProviderInit ==
    \E initial \in InitialLists :
        /\ store = StoreProviderValue(initial)
        /\ storeLast = [op |-> "provider", args |-> initial, pre |-> <<>>]

InitStore == StoreProviderInit /\ ActionIdle /\ TableIdle /\ ContextIdle /\ SingleIdle /\ FormIdle

SpecStore == InitStore /\ [][StoreNext]_vars

----------------------------------------------------------------------------
(* useTableProvider and useMethod: crud.tsx *)

MaxMethodCalls == 2

Arr(a) == [tag |-> "arr", a |-> a]

Ops == {"find", "create", "update", "remove", "list"}
TableNames == {"users"}

\* What consumers pass to a trigger; the second carries a table key of its own.
MethodInputs == {[id |-> Str("1")], [id |-> Str("1"), table |-> Str("other")]}

\* What the backend may answer.
TableEntities == {Ent(Str("1"), "x"), Ent(Str("1"), "y"), Ent(Str("2"), "x")}
EntityResults == {Ent(Str("1"), "y"), Ent(Str("2"), "x")} \cup EntitiesNoId
ListResults ==
    {Arr(<<Ent(Str("1"), "x"), Ent(Str("2"), "x")>>), Arr(<<Ent(Str("2"), "x")>>), Null}
BackendResults(op) == IF op = "list" THEN ListResults ELSE EntityResults
BackendErrors == {Err("failed")}

AsAboveSet == {Mapping(<<>>), Mapping(<<Ent(Str("1"), "x")>>)}

\* useState(false), useState(null), useState()
MethodInitial == [loading |-> FALSE, error |-> Null, result |-> Undefined]

\* useIndex({ ...(asAbove ?? {}) }), and one useMethod per operation
TableInit ==
    /\ asAbove \in [TableNames -> AsAboveSet]
    /\ index = asAbove
    /\ tableMounted = FALSE
    /\ method = [t \in TableNames |-> [op \in Ops |-> MethodInitial]]
    /\ methodPub = method
    /\ mcalls = <<>>
    /\ lastProps = EmptyObj
    /\ unmounted = FALSE

\* A call of a useMethod trigger: its table and operation, whether the backend
\* was invoked and with which payload, and what the promise trigger returned
\* settled to (st, ret as for useAction; settled: how the backend call ended).
NewMethodCall(t, op, invoked, payload) ==
    [table |-> t, op |-> op, invoked |-> invoked, payload |-> payload,
     st |-> IF invoked THEN "flight" ELSE "fulfilled", ret |-> Undefined,
     settled |-> "none"]

\* if (loading) return -- `loading` is the one the closure captured.
MethodDrops(pub) == pub.loading

BackendPayloadCallerWins(t, props) == Spread([table |-> Str(t)], props)

\* methods.op({ ...props, table })
BackendPayload(t, props) == Spread(props, [table |-> Str(t)])

MethodTriggerCallSharedGuard(t, op, props) ==
    /\ IF \E o \in Ops : MethodDrops(methodPub[t][o])
       THEN /\ mcalls' = Append(mcalls, NewMethodCall(t, op, FALSE, EmptyObj))
            /\ UNCHANGED method
       ELSE /\ mcalls' = Append(mcalls,
                            NewMethodCall(t, op, TRUE, BackendPayload(t, props)))
            /\ method' = [method EXCEPT ![t][op].loading = TRUE, ![t][op].error = Null]
    /\ lastProps' = props

\* trigger, up to its await: setLoading(true), setError(null), method(props)
MethodTriggerCall(t, op, props) ==
    /\ IF MethodDrops(methodPub[t][op])
       THEN /\ mcalls' = Append(mcalls, NewMethodCall(t, op, FALSE, EmptyObj))
            /\ UNCHANGED method
       ELSE /\ mcalls' = Append(mcalls,
                            NewMethodCall(t, op, TRUE, BackendPayload(t, props)))
            /\ method' = [method EXCEPT ![t][op].loading = TRUE, ![t][op].error = Null]
    /\ lastProps' = props

\* A consumer, which lives inside the provider, calls the trigger a guard of
\* the handle published.
MethodTrigger(t, op, props) ==
    /\ ~unmounted
    /\ Len(mcalls) < MaxMethodCalls
    /\ MethodTriggerCall(t, op, props)
    /\ UNCHANGED <<index, asAbove, tableMounted, methodPub, unmounted>>
    /\ UNCHANGED notTableVars

\* result && result.id
HasId(r) == r.tag = "ent" /\ r.id.tag = "str" /\ r.id.s # ""

createWithIndexOverwrites(idx, r) == IF HasId(r) THEN IndexSet(<<>>, <<r>>) ELSE idx

createWithIndexAlways(idx, r) == IndexSet(idx, <<r>>)

\* if (result && result.id) index.set(result)
createWithIndex(idx, r) == IF HasId(r) THEN IndexSet(idx, <<r>>) ELSE idx

updateWithIndexOnlyNew(idx, r) ==
    IF HasId(r) /\ ~ObjHas(idx, KeyOf(r.id)) THEN IndexSet(idx, <<r>>) ELSE idx

\* if (result && result.id) index.set(result)
updateWithIndex(idx, r) == IF HasId(r) THEN IndexSet(idx, <<r>>) ELSE idx

removeWithIndexKeeps(idx, r) == idx

removeWithIndexClears(idx, r) == IF HasId(r) THEN <<>> ELSE idx

\* if (result && result.id) index.remove(result)
removeWithIndex(idx, r) == IF HasId(r) THEN IndexRemove(idx, <<r>>) ELSE idx

listWithIndexMerges(idx, r) ==
    IF r.tag = "arr" THEN ObjSpread(idx, ObjFromEntries(EntriesOf(r.a))) ELSE idx

\* if (Array.isArray(result)) index.setIndex(Object.fromEntries(result.map(...)))
listWithIndex(idx, r) ==
    IF r.tag = "arr" THEN ObjFromEntries(EntriesOf(r.a)) ELSE idx

ReconcileUpdateOnlyPresent(op, idx, r) ==
    CASE op = "create" -> createWithIndex(idx, r)
      [] op = "update" -> IF ObjHas(idx, KeyOf(r.id)) THEN updateWithIndex(idx, r) ELSE idx
      [] op = "remove" -> removeWithIndex(idx, r)
      [] op = "list" -> listWithIndex(idx, r)
      [] OTHER -> idx

ReconcileAlsoFind(op, idx, r) ==
    CASE op = "create" -> createWithIndex(idx, r)
      [] op = "update" -> updateWithIndex(idx, r)
      [] op = "remove" -> removeWithIndex(idx, r)
      [] op = "list" -> listWithIndex(idx, r)
      [] OTHER -> createWithIndex(idx, r)

\* What the method wrapped by the guard of op does to the index once the
\* backend answered r; find is wrapped without an index step.
Reconcile(op, idx, r) ==
    CASE op = "create" -> createWithIndex(idx, r)
      [] op = "update" -> updateWithIndex(idx, r)
      [] op = "remove" -> removeWithIndex(idx, r)
      [] op = "list" -> listWithIndex(idx, r)
      [] OTHER -> idx

\* setResult(data); return data; finally setLoading(false)
MethodSuccess(old, r) == [old EXCEPT !.result = r, !.loading = FALSE]

MethodResolveStepAllTables(i, r) ==
    /\ tableMounted
    /\ i \in InFlight(mcalls)
    /\ r \in BackendResults(mcalls[i].op)
    /\ LET t == mcalls[i].table
           op == mcalls[i].op
       IN /\ index' = [u \in DOMAIN index |-> Reconcile(op, index[u], r)]
          /\ method' = [method EXCEPT ![t][op] = MethodSuccess(method[t][op], r)]
    /\ mcalls' = [mcalls EXCEPT ![i].st = "fulfilled", ![i].ret = r, ![i].settled = "ok"]
    /\ UNCHANGED <<asAbove, tableMounted, methodPub, lastProps, unmounted>>

\* The backend answers call i with r: the wrapped method reconciles the index
\* and returns r, trigger stores and returns it. (A promise settles in a
\* later task than the commit whose effects made the call.)
MethodResolveStep(i, r) ==
    /\ tableMounted
    /\ i \in InFlight(mcalls)
    /\ r \in BackendResults(mcalls[i].op)
    /\ LET t == mcalls[i].table
           op == mcalls[i].op
       IN /\ index' = [index EXCEPT ![t] = Reconcile(op, index[t], r)]
          /\ method' = [method EXCEPT ![t][op] = MethodSuccess(method[t][op], r)]
    /\ mcalls' = [mcalls EXCEPT ![i].st = "fulfilled", ![i].ret = r, ![i].settled = "ok"]
    /\ UNCHANGED <<asAbove, tableMounted, methodPub, lastProps, unmounted>>

\* ... for a call whose caller does nothing more with the promise.
MethodResolve(i, r) ==
    /\ MethodResolveStep(i, r)
    /\ UNCHANGED notTableVars

MethodFailureClearsResult(old, e) ==
    [old EXCEPT !.error = e, !.result = Undefined, !.loading = FALSE]

\* catch (err) { setError(err); throw err } finally { setLoading(false) }
MethodFailure(old, e) == [old EXCEPT !.error = e, !.loading = FALSE]

MethodRejectStepForgets(i, e) ==
    /\ tableMounted
    /\ i \in InFlight(mcalls)
    /\ LET t == mcalls[i].table
           op == mcalls[i].op
       IN /\ method' = [method EXCEPT ![t][op] = MethodFailure(method[t][op], e)]
          /\ index' = [index EXCEPT ![t] = <<>>]
    /\ mcalls' = [mcalls EXCEPT ![i].st = "rejected", ![i].ret = e, ![i].settled = "fail"]
    /\ UNCHANGED <<asAbove, tableMounted, methodPub, lastProps, unmounted>>

\* The backend fails call i with e: what that does to the table providers.
MethodRejectStep(i, e) ==
    /\ tableMounted
    /\ i \in InFlight(mcalls)
    /\ LET t == mcalls[i].table
           op == mcalls[i].op
       IN method' = [method EXCEPT ![t][op] = MethodFailure(method[t][op], e)]
    /\ mcalls' = [mcalls EXCEPT ![i].st = "rejected", ![i].ret = e, ![i].settled = "fail"]
    /\ UNCHANGED <<index, asAbove, tableMounted, methodPub, lastProps, unmounted>>

\* The backend fails call i with e.
MethodReject(i, e) == MethodRejectStep(i, e) /\ UNCHANGED notTableVars

\* useEffect(function soBelow() { index.setIndex(prev => ({ ...prev, ...asAbove })) }, [])
TableMount ==
    /\ ~tableMounted
    /\ tableMounted' = TRUE
    /\ index' = [t \in DOMAIN index |-> ObjSpread(index[t], asAbove[t])]
    /\ UNCHANGED <<asAbove, method, methodPub, mcalls, lastProps, unmounted>>
    /\ UNCHANGED notTableVars

\* React renders the table providers again and publishes the guards' state;
\* every trigger is rebuilt over the new loading.
TableRender ==
    /\ tableMounted
    /\ ~unmounted
    /\ methodPub # method
    /\ methodPub' = method
    /\ UNCHANGED <<index, asAbove, tableMounted, method, mcalls, lastProps, unmounted>>
    /\ UNCHANGED notTableVars

TableNext ==
    \/ \E t \in TableNames, op \in Ops, props \in MethodInputs : MethodTrigger(t, op, props)
    \/ \E i \in DOMAIN mcalls, r \in EntityResults \cup ListResults : MethodResolve(i, r)
    \/ \E i \in DOMAIN mcalls, e \in BackendErrors : MethodReject(i, e)
    \/ TableMount
    \/ TableRender

InitTable == TableInit /\ ActionIdle /\ StoreIdle /\ ContextIdle /\ SingleIdle /\ FormIdle

SpecTable == InitTable /\ [][TableNext]_vars

\* Two table handles under one DatabaseProvider, each made by its own call of
\* useTableProvider.
TwoTables == {"users", "posts"}

TwoTablesResults == {Ent(Str("2"), "x"), Arr(<<Ent(Str("2"), "x")>>)}

TwoTablesInit ==
    /\ asAbove \in {f \in [TwoTables -> AsAboveSet] : f["posts"] = Mapping(<<>>)}
    /\ index = asAbove
    /\ tableMounted = FALSE
    /\ method = [t \in TwoTables |-> [op \in Ops |-> MethodInitial]]
    /\ methodPub = method
    /\ mcalls = <<>>
    /\ lastProps = EmptyObj
    /\ unmounted = FALSE

TwoTablesNext ==
    \/ \E t \in TwoTables, op \in Ops, props \in {[id |-> Str("1")]} :
          MethodTrigger(t, op, props)
    \/ \E i \in DOMAIN mcalls, r \in TwoTablesResults : MethodResolve(i, r)
    \/ \E i \in DOMAIN mcalls, e \in BackendErrors : MethodReject(i, e)
    \/ TableMount
    \/ TableRender

InitTwoTables ==
    TwoTablesInit /\ ActionIdle /\ StoreIdle /\ ContextIdle /\ SingleIdle /\ FormIdle

SpecTwoTables == InitTwoTables /\ [][TwoTablesNext]_vars

\* React unmounts the table providers and what they enclose: nothing renders
\* them again and no consumer is left to call a trigger. The promises of the
\* calls in flight still settle, and their continuations (MethodResolve,
\* MethodReject) run as written: neither useMethod nor the wrapped methods
\* test whether their provider is still mounted before calling a setter.
TableUnmount ==
    /\ tableMounted
    /\ ~unmounted
    /\ unmounted' = TRUE
    /\ UNCHANGED <<index, asAbove, tableMounted, method, methodPub, mcalls, lastProps>>
    /\ UNCHANGED notTableVars

UnmountNext ==
    \/ TableNext
    \/ TableUnmount

SpecUnmount == InitTable /\ [][UnmountNext]_vars

MaxSeqCalls == 3

\* What this consumer passes to the triggers.
SeqInputs == {[id |-> Str("1")]}

\* The operations that reconcile the index.
WriteOps == {"create", "update", "remove", "list"}

\* A consumer that awaits each trigger before it calls the next:
\*   await create.trigger(...); await update.trigger(...); ...
SeqTrigger(t, op, props) ==
    /\ ~unmounted
    /\ InFlight(mcalls) = {}
    /\ Len(mcalls) < MaxSeqCalls
    /\ MethodTriggerCall(t, op, props)
    /\ UNCHANGED <<index, asAbove, tableMounted, methodPub, unmounted>>
    /\ UNCHANGED notTableVars

\* ... against a backend that answers every call.
SeqNext ==
    \/ \E t \in TableNames, op \in WriteOps, props \in SeqInputs : SeqTrigger(t, op, props)
    \/ \E i \in DOMAIN mcalls, r \in EntityResults \cup ListResults : MethodResolve(i, r)
    \/ TableMount
    \/ TableRender

SpecSequential == InitTable /\ [][SeqNext]_vars

\* What a consumer gives the set of a table handle.
SetParams == {<<Ent(Str("a"), "x")>>, <<Ent(Str("1"), "y"), Ent(Undefined, "x")>>}

KeysResults ==
    {Ent(Str("1"), "y"), Ent(Undefined, "x"),
     Arr(<<Ent(Str("1"), "x"), Ent(Str("2"), "x")>>)}

\* A consumer calls the set of the handle, which is that of useIndex.
TableSet(t, params) ==
    /\ ~unmounted
    /\ index' = [index EXCEPT ![t] = IndexSet(index[t], params)]
    /\ UNCHANGED <<asAbove, tableMounted, method, methodPub, mcalls, lastProps, unmounted>>
    /\ UNCHANGED notTableVars

\* The table handle with its set and the operations that reconcile.
KeysNext ==
    \/ \E t \in TableNames, params \in SetParams : TableSet(t, params)
    \/ \E t \in TableNames, op \in WriteOps, props \in SeqInputs :
          MethodTrigger(t, op, props)
    \/ \E i \in DOMAIN mcalls, r \in KeysResults : MethodResolve(i, r)
    \/ \E i \in DOMAIN mcalls, e \in BackendErrors : MethodReject(i, e)
    \/ TableMount
    \/ TableRender

SpecKeys == InitTable /\ [][KeysNext]_vars

----------------------------------------------------------------------------
(* SingleProvider: crud.tsx *)

SingleIds == {"1", "2"}

\* !v is false: v is an object
Truthy(v) == v.tag = "ent"

\* useState(() => index[id]) happens at the first render; before it the
\* provider has no state.
SingleInit ==
    /\ singleProps \in {[id |-> k, table |-> t] : k \in SingleIds, t \in TableNames}
    /\ single = Undefined
    /\ singlePub = Undefined
    /\ singleMounted = FALSE
    /\ children = FALSE
    /\ singleCall = 0

SingleRendersAlways(v) == TRUE

\* SingleProvider: if (!value.single) return null, else the children inside
\* SingleContext.Provider
SingleRenders(v) == Truthy(v)

SingleFindsAlways(v) == TRUE

\* the mount effect: if (!single) find.trigger({ id }).then(setSingle)
SingleFinds(v) == ~Truthy(v)

\* SingleProvider is rendered for the first time inside the table provider
\* and its mount effect runs: single starts as index[id]; when that is
\* nothing, the effect calls the find.trigger this render got from useTable.
\* (When that trigger drops the call its promise resolves with undefined and
\* setSingle(undefined) changes nothing.)
SingleMount ==
    /\ ~singleMounted
    /\ ~unmounted
    /\ singleMounted' = TRUE
    /\ LET t == singleProps.table
           k == singleProps.id
           v == ObjGet(index[t], k)
       IN /\ single' = v
          /\ singlePub' = v
          /\ children' = SingleRenders(v)
          /\ IF SingleFinds(v)
             THEN /\ MethodTriggerCall(t, "find", [id |-> Str(k)])
                  /\ singleCall' = Len(mcalls) + 1
             ELSE /\ UNCHANGED <<mcalls, method, lastProps>>
                  /\ singleCall' = 0
    /\ UNCHANGED <<singleProps, index, asAbove, tableMounted, methodPub, unmounted>>
    /\ UNCHANGED notSingleVars

\* The backend answers call i with r; when the call is the one the effect of
\* SingleProvider made, .then(setSingle) stores what trigger returned.
SingleResolve(i, r) ==
    /\ MethodResolveStep(i, r)
    /\ single' = IF i = singleCall THEN r ELSE single
    /\ UNCHANGED <<singleProps, singlePub, singleMounted, children, singleCall>>
    /\ UNCHANGED notSingleVars

\* A child calls the setSingle that useSingle gave it.
SingleSet(v) ==
    /\ children
    /\ single' = v
    /\ UNCHANGED <<singleProps, singlePub, singleMounted, children, singleCall>>
    /\ UNCHANGED tableVars
    /\ UNCHANGED notSingleVars

\* React renders SingleProvider again after setSingle.
SingleRender ==
    /\ singleMounted
    /\ singlePub # single
    /\ singlePub' = single
    /\ children' = SingleRenders(single)
    /\ UNCHANGED <<singleProps, single, singleMounted, singleCall>>
    /\ UNCHANGED tableVars
    /\ UNCHANGED notSingleVars

\* SingleProvider next to other consumers of the find guard of its table.
SingleNext ==
    \/ SingleMount
    \/ \E i \in DOMAIN mcalls, r \in EntityResults : SingleResolve(i, r)
    \/ \E i \in DOMAIN mcalls, e \in BackendErrors : MethodReject(i, e)
    \/ \E v \in {Undefined, Ent(Str("2"), "x")} : SingleSet(v)
    \/ SingleRender
    \/ \E t \in TableNames, props \in MethodInputs : MethodTrigger(t, "find", props)
    \/ TableMount
    \/ TableRender

InitSingle == TableInit /\ SingleInit /\ ActionIdle /\ StoreIdle /\ ContextIdle /\ FormIdle

SpecSingle == InitSingle /\ [][SingleNext]_vars

\* SingleProvider over a backend whose find always succeeds, with React and
\* the backend never stopping: the mount, every pending answer and every
\* pending render eventually happen.
SingleLiveNext ==
    \/ SingleMount
    \/ \E i \in DOMAIN mcalls, r \in EntityResults : SingleResolve(i, r)
    \/ SingleRender
    \/ \E t \in TableNames, props \in MethodInputs : MethodTrigger(t, "find", props)
    \/ TableMount
    \/ TableRender

SpecSingleLive ==
    /\ InitSingle
    /\ [][SingleLiveNext]_vars
    /\ WF_vars(SingleMount)
    /\ WF_vars(\E i \in DOMAIN mcalls, r \in EntityResults : SingleResolve(i, r))
    /\ WF_vars(SingleRender)
    /\ WF_vars(TableMount)
    /\ WF_vars(TableRender)

----------------------------------------------------------------------------
(* FieldsProvider and FormProvider: fields.tsx, forms.tsx *)

MaxSubmits == 2

FieldDefaults == {[name |-> Str("test")]}
FieldNames == {"name"}
FieldValues == {Str("typed")}
SubmitResults == {Str("success"), Str("again")}
SubmitErrors == {Err("Submission failed")}

\* the `false` submit returns
False == [tag |-> "bool", b |-> FALSE]

\* useState<Result | null>(null), useState(false), useState<Error | null>(null)
FormInitial == [result |-> Null, loading |-> FALSE, error |-> Null]

\* FieldsProvider over FormProvider, both rendered once; the mount effect of
\* useFieldsProvider sets fields to props.defaults, which they already are.
FieldsInit ==
    /\ fields \in FieldDefaults
    /\ fieldsPub = fields
    /\ form = FormInitial
    /\ formPub = form
    /\ submits = <<>>
    /\ formLog = <<>>

FormInit ==
    /\ formProps \in {[onSubmit |-> given] : given \in BOOLEAN}
    /\ FieldsInit

\* A call of submit: whether onSubmit was called and with which fields, what
\* onSubmit settled to (val), what the promise of submit settled to (st, ret),
\* and for the forms of a table the call of the trigger it made (call).
NewSubmit(called, with, call) ==
    [called |-> called, fields |-> with, call |-> call,
     st |-> IF called THEN "flight" ELSE "fulfilled",
     ret |-> IF called THEN Undefined ELSE False, val |-> Undefined]

\* setField: setFields(prev => ({ ...prev, [name]: value }))
setField(prev, name, value) == Spread(prev, name :> value)

\* A consumer of useFields changes a field.
FieldsSetField(name, value) ==
    /\ fields' = setField(fields, name, value)
    /\ UNCHANGED <<formProps, fieldsPub, form, formPub, submits, formLog>>
    /\ UNCHANGED tableVars
    /\ UNCHANGED notFormVars

\* submit, up to its await: setLoading(true), setError(null)
FormStart(old) == [old EXCEPT !.loading = TRUE, !.error = Null]

\* props.onSubmit && fields.fields: the fields are an object
FormCallsOnSubmit(props, with) == props.onSubmit

\* const result = await props.onSubmit(fields.fields); setResult(result);
\* finally setLoading(false)
FormSuccess(old, r) == [old EXCEPT !.result = r, !.loading = FALSE]

FormFailureClearsResult(old, e) ==
    [old EXCEPT !.error = e, !.result = Null, !.loading = FALSE]

\* catch (err) { setError(err); throw err } finally { setLoading(false) }
FormFailure(old, e) == [old EXCEPT !.error = e, !.loading = FALSE]

\* A consumer of useForm calls the submit the last render published: it
\* holds the fields and the onSubmit of that render. Without onSubmit the
\* try block is empty and finally sets loading false at once.
FormSubmit ==
    /\ Len(submits) < MaxSubmits
    /\ IF FormCallsOnSubmit(formProps, fieldsPub)
       THEN /\ form' = FormStart(form)
            /\ submits' = Append(submits, NewSubmit(TRUE, fieldsPub, 0))
       ELSE /\ form' = [FormStart(form) EXCEPT !.loading = FALSE]
            /\ submits' = Append(submits, NewSubmit(FALSE, EmptyObj, 0))
    /\ UNCHANGED <<formProps, fields, fieldsPub, formPub, formLog>>
    /\ UNCHANGED tableVars
    /\ UNCHANGED notFormVars

\* onSubmit resolves with r: submit returns false
FormResolve(i, r) ==
    /\ i \in InFlight(submits)
    /\ form' = FormSuccess(form, r)
    /\ submits' = [submits EXCEPT ![i].st = "fulfilled", ![i].ret = False, ![i].val = r]
    /\ UNCHANGED <<formProps, fields, fieldsPub, formPub, formLog>>
    /\ UNCHANGED tableVars
    /\ UNCHANGED notFormVars

\* onSubmit rejects with e: submit throws e again
FormReject(i, e) ==
    /\ i \in InFlight(submits)
    /\ form' = FormFailure(form, e)
    /\ submits' = [submits EXCEPT ![i].st = "rejected", ![i].ret = e, ![i].val = e]
    /\ UNCHANGED <<formProps, fields, fieldsPub, formPub, formLog>>
    /\ UNCHANGED tableVars
    /\ UNCHANGED notFormVars

\* React renders FieldsProvider and FormProvider again.
FormRender ==
    /\ <<fieldsPub, formPub>> # <<fields, form>>
    /\ fieldsPub' = fields
    /\ formPub' = form
    /\ UNCHANGED <<formProps, fields, form, submits, formLog>>
    /\ UNCHANGED tableVars
    /\ UNCHANGED notFormVars

FormNext ==
    \/ \E name \in FieldNames, value \in FieldValues : FieldsSetField(name, value)
    \/ FormSubmit
    \/ \E i \in DOMAIN submits, r \in SubmitResults : FormResolve(i, r)
    \/ \E i \in DOMAIN submits, e \in SubmitErrors : FormReject(i, e)
    \/ FormRender

InitForm ==
    FormInit /\ ActionIdle /\ StoreIdle /\ TableIdle /\ ContextIdle /\ SingleIdle

SpecForm == InitForm /\ [][FormNext]_vars

----------------------------------------------------------------------------
(* CreateForm: crud.tsx *)

\* CreateForm renders FieldsProvider and FormProvider with onSubmit =
\* handleSubmit, inside the table providers.
CreateFormInit ==
    /\ formProps \in {[onSubmit |-> TRUE, table |-> t, onSuccess |-> given] :
                          t \in TableNames, given \in BOOLEAN}
    /\ FieldsInit

\* create.trigger({ data: fields })
CreateFormProps(with) == [data |-> Obj(with)]

\* if (onSuccess) onSuccess(result as Readable)
CreateFormOnSuccess(log, r) == IF formProps.onSuccess THEN Append(log, r) ELSE log

\* The submits that wait for call i of a trigger.
SubmitsOf(i) == {j \in InFlight(submits) : submits[j].call = i}

\* A consumer of useCreateForm calls submit: handleSubmit calls the
\* create.trigger the last render of the table published. When that trigger
\* drops the call, its promise resolves with undefined and handleSubmit goes
\* on: onSuccess(undefined), return undefined, and submit sets result and
\* loading.
CreateFormSubmit ==
    /\ ~unmounted
    /\ Len(submits) < MaxSubmits
    /\ Len(mcalls) < MaxMethodCalls
    /\ LET t == formProps.table
           n == Len(mcalls) + 1
       IN /\ MethodTriggerCall(t, "create", CreateFormProps(fieldsPub))
          /\ IF MethodDrops(methodPub[t]["create"])
             THEN /\ formLog' = CreateFormOnSuccess(formLog, Undefined)
                  /\ form' = FormSuccess(FormStart(form), Undefined)
                  /\ submits' = Append(submits,
                         [NewSubmit(TRUE, fieldsPub, n) EXCEPT
                             !.st = "fulfilled", !.ret = False])
             ELSE /\ formLog' = formLog
                  /\ form' = FormStart(form)
                  /\ submits' = Append(submits, NewSubmit(TRUE, fieldsPub, n))
    /\ UNCHANGED <<formProps, fields, fieldsPub, formPub>>
    /\ UNCHANGED <<index, asAbove, tableMounted, methodPub, unmounted>>
    /\ UNCHANGED notFormVars

\* The backend answers call i with r; a handleSubmit waiting for it calls
\* onSuccess(r) and returns r to submit.
CreateFormResolve(i, r) ==
    /\ MethodResolveStep(i, r)
    /\ IF SubmitsOf(i) = {}
       THEN UNCHANGED <<form, submits, formLog>>
       ELSE /\ formLog' = CreateFormOnSuccess(formLog, r)
            /\ form' = FormSuccess(form, r)
            /\ submits' = [j \in DOMAIN submits |->
                              IF j \in SubmitsOf(i)
                              THEN [submits[j] EXCEPT !.st = "fulfilled",
                                                      !.ret = False, !.val = r]
                              ELSE submits[j]]
    /\ UNCHANGED <<formProps, fields, fieldsPub, formPub>>
    /\ UNCHANGED notFormVars

\* The backend fails call i with e; the trigger throws e, handleSubmit and
\* submit with it.
CreateFormReject(i, e) ==
    /\ MethodRejectStep(i, e)
    /\ IF SubmitsOf(i) = {}
       THEN UNCHANGED <<form, submits>>
       ELSE /\ form' = FormFailure(form, e)
            /\ submits' = [j \in DOMAIN submits |->
                              IF j \in SubmitsOf(i)
                              THEN [submits[j] EXCEPT !.st = "rejected",
                                                      !.ret = e, !.val = e]
                              ELSE submits[j]]
    /\ UNCHANGED <<formProps, fields, fieldsPub, formPub, formLog>>
    /\ UNCHANGED notFormVars

\* CreateForm next to another consumer of the create guard of its table.
CreateFormNext ==
    \/ CreateFormSubmit
    \/ \E i \in DOMAIN mcalls, r \in EntityResults : CreateFormResolve(i, r)
    \/ \E i \in DOMAIN mcalls, e \in BackendErrors : CreateFormReject(i, e)
    \/ \E name \in FieldNames, value \in FieldValues : FieldsSetField(name, value)
    \/ FormRender
    \/ \E t \in TableNames, props \in SeqInputs : MethodTrigger(t, "create", props)
    \/ TableMount
    \/ TableRender

InitCreateForm ==
    TableInit /\ CreateFormInit /\ ActionIdle /\ StoreIdle /\ ContextIdle /\ SingleIdle

SpecCreateForm == InitCreateForm /\ [][CreateFormNext]_vars

----------------------------------------------------------------------------
(* Providers and Accessors: context.tsx, fields.tsx, forms.tsx *)

MaxDepth == 2

\* One React context per binding: two made by createContextFromHook from the
\* same hook, one made from another hook, and the contexts of fields.tsx and
\* forms.tsx.
HookContexts == {"ContextA1", "ContextA2", "ContextB"}
Contexts == HookContexts \cup {"FieldsContext", "FormContext"}
HookOf(ctx) == IF ctx \in {"ContextA1", "ContextA2"} THEN "useHookA" ELSE ctx

\* What a Provider publishes: the value its hook returned.
ProvidedValues == {Str("v1"), Str("v2")}

Enclosing(chain, ctx) == {i \in DOMAIN chain : chain[i].ctx = ctx}

Innermost(is) == CHOOSE i \in is : \A j \in is : j <= i

ReactUseContextByHook(chain, ctx) ==
    LET is == {i \in DOMAIN chain : HookOf(chain[i].ctx) = HookOf(ctx)}
    IN IF is = {} THEN Undefined ELSE chain[Innermost(is)].value

\* React.useContext(Context): the value of the nearest enclosing Provider of
\* that context, or the default given to createContext, which is undefined
\* for all of them.
ReactUseContext(chain, ctx) ==
    IF Enclosing(chain, ctx) = {} THEN Undefined
    ELSE chain[Innermost(Enclosing(chain, ctx))].value

Returns(v) == [outcome |-> "return", val |-> v]
Throws(m) == [outcome |-> "throw", val |-> Err(m)]

\* createContextFromHook: return React.useContext(Context) as Result
useContext(chain, ctx) == Returns(ReactUseContext(chain, ctx))

useFieldsUnchecked(chain) == Returns(ReactUseContext(chain, "FieldsContext"))

\* if (context === undefined) throw new Error(...); return context
useFields(chain) ==
    IF ReactUseContext(chain, "FieldsContext") = Undefined
    THEN Throws("useFields must be used within a FieldsProvider")
    ELSE Returns(ReactUseContext(chain, "FieldsContext"))

\* if (context === undefined) throw new Error(...); return context
useForm(chain) ==
    IF ReactUseContext(chain, "FormContext") = Undefined
    THEN Throws("useForm must be used within a FormProvider")
    ELSE Returns(ReactUseContext(chain, "FormContext"))

\* The Accessor of a binding.
Accessor(chain, ctx) ==
    CASE ctx = "FieldsContext" -> useFields(chain)
      [] ctx = "FormContext" -> useForm(chain)
      [] OTHER -> useContext(chain, ctx)

NoAccess == [ctx |-> "none", enclosed |-> FALSE, outcome |-> "none", val |-> Undefined]

ContextInit == providers = <<>> /\ access = NoAccess

\* A Provider of ctx is rendered around the component, inside the others:
\* <Context.Provider value={value}>{children}</Context.Provider>
ProviderMount(ctx, v) ==
    /\ Len(providers) < MaxDepth
    /\ providers' = Append(providers, [ctx |-> ctx, value |-> v])
    /\ UNCHANGED access
    /\ UNCHANGED notContextVars

\* The innermost Provider is taken away.
ProviderUnmount ==
    /\ providers # <<>>
    /\ providers' = SubSeq(providers, 1, Len(providers) - 1)
    /\ UNCHANGED access
    /\ UNCHANGED notContextVars

\* The component calls the Accessor of ctx; access keeps what came of it and
\* whether a Provider of ctx enclosed the call.
Access(ctx) ==
    /\ access' = [ctx |-> ctx, enclosed |-> Enclosing(providers, ctx) # {}]
                     @@ Accessor(providers, ctx)
    /\ UNCHANGED providers
    /\ UNCHANGED notContextVars

ContextNext ==
    \/ \E ctx \in Contexts, v \in ProvidedValues : ProviderMount(ctx, v)
    \/ ProviderUnmount
    \/ \E ctx \in Contexts : Access(ctx)

InitContext == ContextInit /\ ActionIdle /\ StoreIdle /\ TableIdle /\ SingleIdle /\ FormIdle

SpecContext == InitContext /\ [][ContextNext]_vars

----------------------------------------------------------------------------
(* Claims about useAction, checked under SpecAction *)

NumInvoked(cs) == Cardinality({i \in DOMAIN cs : cs[i].invoked})

\* the step is a call of trigger
TriggerStep == Len(calls') = Len(calls) + 1
\* the step is a call of trigger that invoked the wrapped action
AcceptStep == TriggerStep /\ calls'[Len(calls')].invoked

\* the Defaults the options gave the guard at construction
CfgDefaults == IF "defaults" \in DOMAIN cfg.props THEN cfg.props.defaults.o ELSE EmptyObj

\* C1: a guard never has two invocations of its wrapped operation in flight
\* at the same time, whether or not a render separates the two trigger calls.
C1_SingleFlight == Cardinality(InFlight(calls)) <= 1

\* C2: a trigger called while the published loading flag is true does not
\* invoke the wrapped action (the invocation count stays as it was), resolves
\* to undefined, and leaves loading, error and result as they were.
C2_DroppedWhileLoading ==
    [][(actionPub.loading /\ TriggerStep) =>
          /\ ~calls'[Len(calls')].invoked
          /\ calls'[Len(calls')].st = "fulfilled"
          /\ calls'[Len(calls')].ret = Undefined
          /\ NumInvoked(calls') = NumInvoked(calls)
          /\ action' = action]_vars

C2_Witness ==
    /\ actionPub.loading
    /\ NumInvoked(calls) = 1
    /\ \E i \in DOMAIN calls : ~calls[i].invoked /\ calls[i].ret = Undefined

\* C4: when the wrapped action fails, the failure is stored in error with
\* loading back to false, and the promise trigger returned rejects with the
\* failure value.
C4_FailureReRaised ==
    [][\A i \in DOMAIN calls :
          (Len(calls') = Len(calls) /\ calls[i].settled = "none" /\ calls'[i].settled = "fail") =>
              /\ action'.error = calls'[i].val
              /\ action'.loading = FALSE
              /\ calls'[i].st = "rejected"
              /\ calls'[i].ret = calls'[i].val]_vars

\* C5: every accepted trigger clears error when it starts, and a successful
\* trigger leaves error cleared.
C5_ErrorCleared ==
    [][/\ AcceptStep => action'.error = Undefined
       /\ (\E i \in DOMAIN calls : calls[i].settled = "none" /\ calls'[i].settled = "ok")
             => action'.error = Undefined]_vars

C8_AutoTriggerPayload ==
    mounted =>
        LET ms == {i \in DOMAIN calls : calls[i].by = "mount"}
        IN IF cfg.autoTrigger
           THEN /\ Cardinality(ms) = 1
                /\ \A i \in ms : calls[i].invoked /\ calls[i].payload = CfgDefaults
           ELSE ms = {}

\* C9 as stated: setDefaults(d) leaves loading, error, result and the calls
\* in flight alone, and every trigger accepted afterwards merges with d.
C9_EveryLaterTriggerUsesNewDefaults ==
    [][/\ action'.defaults # action.defaults =>
             /\ action'.loading = action.loading
             /\ action'.error = action.error
             /\ action'.result = action.result
             /\ calls' = calls
       /\ AcceptStep =>
             calls'[Len(calls')].payload = Spread(calls'[Len(calls')].input, action.defaults)]_vars

\* C9 amended: setDefaults(d) leaves loading, error, result and the calls in
\* flight alone; the next render publishes d; and every trigger accepted once
\* d is published merges its input with d.
C9_SetDefaults ==
    [][/\ action'.defaults # action.defaults =>
             /\ action'.loading = action.loading
             /\ action'.error = action.error
             /\ action'.result = action.result
             /\ calls' = calls
             /\ actionPub' = actionPub
       /\ actionPub' # actionPub => actionPub'.defaults = action.defaults
       /\ (AcceptStep /\ actionPub.defaults = action.defaults) =>
             calls'[Len(calls')].payload = Spread(calls'[Len(calls')].input, action.defaults)]_vars

C9_Witness ==
    /\ cfg.props = EmptyObj
    /\ Len(calls) = 2
    /\ calls[1].invoked /\ calls[1].payload = calls[1].input
    /\ calls[2].invoked
    /\ calls[2].payload = Spread(calls[2].input, [param |-> Str("test")])
    /\ action.defaults = [param |-> Str("test")]

----------------------------------------------------------------------------
(* Claims about useIndex, checked under SpecIndex *)

Range(f) == {f[i] : i \in DOMAIN f}

\* the last argument stored under key k
LastArgFor(args, k) ==
    args[CHOOSE i \in DOMAIN args :
            /\ KeyOf(args[i].id) = k
            /\ \A j \in DOMAIN args : KeyOf(args[j].id) = k => j <= i]

\* C10: set(e1..en) maps every identity among the arguments to the last
\* argument with that identity, leaves every other entry as it was, and
\* re-setting identities already present keeps the size, with array holding
\* the new entity and not the old one.
C10_SetUpserts ==
    storeLast.op = "set" =>
        LET args == storeLast.args
            pre == storeLast.pre
            argKeys == {KeyOf(args[i].id) : i \in DOMAIN args}
        IN /\ \A k \in argKeys : ObjHas(store, k) /\ ObjGet(store, k) = LastArgFor(args, k)
           /\ \A k \in (ObjKeySet(pre) \cup ObjKeySet(store)) \ argKeys :
                  /\ ObjHas(store, k) /\ ObjHas(pre, k)
                  /\ ObjGet(store, k) = ObjGet(pre, k)
           /\ argKeys \subseteq ObjKeySet(pre) => Len(store) = Len(pre)
           /\ Len(store) = Cardinality(ObjKeySet(pre) \cup argKeys)
           /\ \A k \in argKeys \cap ObjKeySet(pre) :
                  /\ LastArgFor(args, k) \in Range(IndexArray(store))
                  /\ ObjGet(pre, k) # LastArgFor(args, k)
                        => ObjGet(pre, k) \notin Range(IndexArray(store))

\* C11: remove(e1..en) deletes exactly the identities of its arguments that
\* are present and leaves every other entry as it was; when none of them is
\* present the index is unchanged; and removing the same arguments again
\* changes nothing.
C11_RemoveDeletesPresent ==
    storeLast.op = "remove" =>
        LET args == storeLast.args
            pre == storeLast.pre
            argKeys == {KeyOf(args[i].id) : i \in DOMAIN args}
        IN /\ ObjKeySet(store) = ObjKeySet(pre) \ argKeys
           /\ Len(store) = Cardinality(ObjKeySet(store))
           /\ \A k \in ObjKeySet(store) : ObjGet(store, k) = ObjGet(pre, k)
           /\ (argKeys \cap ObjKeySet(pre) = {}) => store = pre
           /\ IndexRemove(store, args) = store

C10_Witness ==
    /\ storeLast.op = "set"
    /\ storeLast.args = <<Ent(Str("1"), "x"), Ent(Str("1"), "y")>>
    /\ Len(storeLast.pre) = 2
    /\ ObjGet(storeLast.pre, "1") = Ent(Str("1"), "x")
    /\ ObjGet(store, "1") = Ent(Str("1"), "y")

C11_Witness ==
    /\ storeLast.op = "remove"
    /\ storeLast.args = <<Ent(Str("1"), "x"), Ent(Str("a"), "x")>>
    /\ ObjKeySet(storeLast.pre) = {"1", "2"}
    /\ ObjKeySet(store) = {"2"}

\* array is a projection of the index idx: as long as the index has keys, it
\* holds the values of the index and nothing else, and no entity twice
IsProjection(idx) ==
    LET arr == IndexArray(idx)
    IN /\ Len(arr) = Cardinality(ObjKeySet(idx))
       /\ Range(arr) = {ObjGet(idx, k) : k \in ObjKeySet(idx)}
       /\ \A i, j \in DOMAIN arr : arr[i] = arr[j] => i = j

\* C12: in every reachable state array is a pure projection of the index,
\* for a useIndex store and for the index of every table handle: its length
\* is the number of keys, its elements are the values, none appears twice.
C12_ArrayIsProjection ==
    /\ IsProjection(store)
    /\ \A t \in DOMAIN index : IsProjection(index[t])

C12_Witness ==
    /\ storeLast.op = "remove"
    /\ Len(storeLast.pre) = 4
    /\ Len(IndexArray(store)) = 3
    /\ Ent(Undefined, "x") \in Range(IndexArray(store))

\* the keys of an object in the order Object.values enumerates them
KeySeq(o) == [i \in 1..Len(o) |-> o[i].key]

\* C13: array lists the entries in insertion order: after a set, every entry
\* that was present keeps its position, and an entity set under an identity
\* that is not present (never set, or removed before) is the last element.
C13_InsertionOrder ==
    storeLast.op = "set" =>
        LET args == storeLast.args
            pre == storeLast.pre
        IN /\ \A i \in 1..Len(pre) : KeySeq(store)[i] = KeySeq(pre)[i]
           /\ (Len(args) = 1 /\ ~ObjHas(pre, KeyOf(args[1].id)))
                 => IndexArray(store)[Len(store)] = args[1]

\* C14: setIndex(m) takes the store in one step from its previous contents
\* to m exactly: the index equals m, and no key of the previous index that is
\* absent from m is left.
C14_SetIndexReplaces ==
    [][(storeLast'.op = "setIndex" /\ storeVars' # storeVars) =>
          /\ storeLast'.pre = store
          /\ store' = storeLast'.args
          /\ \A k \in ObjKeySet(store) \ ObjKeySet(storeLast'.args) : ~ObjHas(store', k)]_vars

C14_Witness ==
    /\ storeLast.op = "setIndex"
    /\ ObjKeySet(storeLast.pre) = {"a", "2"}
    /\ ObjKeySet(storeLast.args) = {"1", "2"}
    /\ ObjKeySet(store) = {"1", "2"}

----------------------------------------------------------------------------
(* Claims about useMethod and the table handle, checked under SpecTable *)

\* the step is a call of a useMethod trigger that invoked the backend
MethodAcceptStep == Len(mcalls') = Len(mcalls) + 1 /\ mcalls'[Len(mcalls')].invoked
\* the step settles call i as how ("ok", "fail")
MethodSettleStep(i, how) ==
    /\ i \in DOMAIN mcalls
    /\ Len(mcalls') = Len(mcalls)
    /\ mcalls[i].settled = "none"
    /\ mcalls'[i].settled = how

\* C3: an accepted useMethod trigger whose backend operation fails ends with
\* error equal to the failure value, the stored result unchanged, loading
\* false, and the promise of trigger rejected with the same value.
C3_MethodFailure ==
    [][\A i \in DOMAIN mcalls :
          MethodSettleStep(i, "fail") =>
              LET t == mcalls[i].table
                  op == mcalls[i].op
              IN /\ mcalls'[i].st = "rejected"
                 /\ mcalls'[i].ret \in BackendErrors
                 /\ method'[t][op].error = mcalls'[i].ret
                 /\ method'[t][op].result = method[t][op].result
                 /\ method'[t][op].loading = FALSE]_vars

C3_Witness ==
    \E i \in DOMAIN mcalls :
        /\ mcalls[i].st = "rejected"
        /\ method[mcalls[i].table][mcalls[i].op].error = mcalls[i].ret
        /\ method[mcalls[i].table][mcalls[i].op].result = Ent(Str("2"), "x")
        /\ method[mcalls[i].table][mcalls[i].op].loading = FALSE

\* C6: an accepted useMethod trigger sets loading true and error null before
\* the backend call, and when the call succeeds with r the guard ends with
\* result = r, error = null, loading = false and trigger returns r.
C6_MethodSuccess ==
    [][/\ MethodAcceptStep =>
             LET c == mcalls'[Len(mcalls')]
             IN /\ method'[c.table][c.op].loading = TRUE
                /\ method'[c.table][c.op].error = Null
       /\ \A i \in DOMAIN mcalls :
             MethodSettleStep(i, "ok") =>
                 LET t == mcalls[i].table
                     op == mcalls[i].op
                 IN /\ mcalls'[i].st = "fulfilled"
                    /\ method'[t][op].result = mcalls'[i].ret
                    /\ method'[t][op].error = Null
                    /\ method'[t][op].loading = FALSE]_vars

\* the other entries of the index of table t are what they were before the step
OthersKept(t, k) ==
    \A j \in (ObjKeySet(index[t]) \cup ObjKeySet(index'[t])) \ {k} :
        /\ ObjHas(index[t], j) /\ ObjHas(index'[t], j)
        /\ ObjGet(index'[t], j) = ObjGet(index[t], j)

\* r is an entity with a defined identity
Identified(r) == r.tag = "ent" /\ r.id # Undefined

\* C15: when a list succeeds with an array, the index becomes the mapping of
\* the result entries keyed by identity; nothing that was there before and
\* is absent from the result is left.
C15_ListResyncs ==
    [][\A i \in DOMAIN mcalls :
          (MethodSettleStep(i, "ok") /\ mcalls[i].op = "list" /\ mcalls'[i].ret.tag = "arr") =>
              LET t == mcalls[i].table
                  a == mcalls'[i].ret.a
                  ids == {KeyOf(a[j].id) : j \in DOMAIN a}
              IN /\ ObjKeySet(index'[t]) = ids
                 /\ Len(index'[t]) = Cardinality(ids)
                 /\ \A k \in ids : ObjGet(index'[t], k) = LastArgFor(a, k)]_vars

C15_Witness ==
    /\ Len(mcalls) = 2
    /\ \A i \in {1, 2} : mcalls[i].op = "list" /\ mcalls[i].settled = "ok"
    /\ mcalls[1].ret = Arr(<<Ent(Str("1"), "x"), Ent(Str("2"), "x")>>)
    /\ mcalls[2].ret = Arr(<<Ent(Str("2"), "x")>>)
    /\ IndexArray(index["users"]) = <<Ent(Str("2"), "x")>>

\* C16: when a create succeeds with a result of defined identity k, the
\* index maps k to the result, has one entry more when k was not present,
\* and keeps every other entry; with a result without identity the index is
\* unchanged.
C16_CreateAdds ==
    [][\A i \in DOMAIN mcalls :
          (MethodSettleStep(i, "ok") /\ mcalls[i].op = "create") =>
              LET t == mcalls[i].table
                  r == mcalls'[i].ret
              IN IF Identified(r)
                 THEN /\ ObjHas(index'[t], KeyOf(r.id))
                      /\ ObjGet(index'[t], KeyOf(r.id)) = r
                      /\ ~ObjHas(index[t], KeyOf(r.id)) => Len(index'[t]) = Len(index[t]) + 1
                      /\ OthersKept(t, KeyOf(r.id))
                 ELSE index'[t] = index[t]]_vars

C16_Witness ==
    \E i \in DOMAIN mcalls :
        /\ mcalls[i].op = "create" /\ mcalls[i].settled = "ok"
        /\ mcalls[i].ret = Ent(Str("2"), "x")
        /\ Len(asAbove["users"]) = 1
        /\ ~ObjHas(asAbove["users"], "2")
        /\ Len(index["users"]) = 2
        /\ ObjGet(index["users"], "2") = Ent(Str("2"), "x")

\* C17: when an update succeeds with a result of defined identity k, the
\* index maps k to the result, its size is unchanged when k was present, and
\* every other entry is kept.
C17_UpdateReplaces ==
    [][\A i \in DOMAIN mcalls :
          (MethodSettleStep(i, "ok") /\ mcalls[i].op = "update" /\ Identified(mcalls'[i].ret)) =>
              LET t == mcalls[i].table
                  r == mcalls'[i].ret
              IN /\ ObjHas(index'[t], KeyOf(r.id))
                 /\ ObjGet(index'[t], KeyOf(r.id)) = r
                 /\ ObjHas(index[t], KeyOf(r.id)) => Len(index'[t]) = Len(index[t])
                 /\ OthersKept(t, KeyOf(r.id))]_vars

C17_Witness ==
    \E i \in DOMAIN mcalls :
        /\ mcalls[i].op = "update" /\ mcalls[i].settled = "ok"
        /\ mcalls[i].ret = Ent(Str("1"), "y")
        /\ ObjGet(asAbove["users"], "1") = Ent(Str("1"), "x")
        /\ IndexArray(index["users"]) = <<Ent(Str("1"), "y")>>

\* C18: when a remove with input {id: k} succeeds returning the entity of
\* identity k, the index no longer has k and keeps every other entry; when a
\* remove fails, the failure raised is the backend's and the index is
\* unchanged.
C18_RemoveDeletes ==
    [][\A i \in DOMAIN mcalls :
          /\ (/\ MethodSettleStep(i, "ok") /\ mcalls[i].op = "remove"
              /\ Identified(mcalls'[i].ret) /\ mcalls'[i].ret.id = mcalls[i].payload.id) =>
                 LET t == mcalls[i].table
                     k == KeyOf(mcalls[i].payload.id)
                 IN ~ObjHas(index'[t], k) /\ OthersKept(t, k)
          /\ (MethodSettleStep(i, "fail") /\ mcalls[i].op = "remove") =>
                 /\ mcalls'[i].ret \in BackendErrors
                 /\ index' = index]_vars

C18_Witness ==
    /\ Len(mcalls) = 2
    /\ \A i \in {1, 2} :
          mcalls[i].op = "remove" /\ mcalls[i].invoked /\ mcalls[i].payload.id = Str("1")
    /\ mcalls[1].settled = "ok" /\ mcalls[1].ret = Ent(Str("1"), "y")
    /\ mcalls[2].st = "rejected"
    /\ ObjHas(asAbove["users"], "1")
    /\ index["users"] = <<>>

\* C19: a find never changes the index: neither the call of its trigger nor
\* its success nor its failure does.
C19_FindLeavesIndex ==
    [][/\ (Len(mcalls') = Len(mcalls) + 1 /\ mcalls'[Len(mcalls')].op = "find")
             => index' = index
       /\ \A i \in DOMAIN mcalls :
             (mcalls[i].op = "find" /\ (MethodSettleStep(i, "ok") \/ MethodSettleStep(i, "fail")))
                 => index' = index]_vars

C19_Witness ==
    \E i \in DOMAIN mcalls :
        /\ mcalls[i].op = "find" /\ mcalls[i].settled = "ok"
        /\ mcalls[i].ret = Ent(Str("2"), "x")
        /\ tableMounted
        /\ index["users"] = asAbove["users"]
        /\ ~ObjHas(index["users"], "2")

\* C20: the payload of every backend call made through a table handle has
\* table equal to the name of the handle and otherwise the keys and values
\* of the input, also when the input has a table key of its own.
C20_TableInjected ==
    [][MethodAcceptStep =>
          LET c == mcalls'[Len(mcalls')]
          IN /\ c.payload.table = Str(c.table)
             /\ DOMAIN c.payload = (DOMAIN lastProps') \cup {"table"}
             /\ \A k \in (DOMAIN lastProps') \ {"table"} : c.payload[k] = lastProps'[k]]_vars

C20_Witness ==
    /\ mcalls # <<>>
    /\ mcalls[Len(mcalls)].invoked
    /\ lastProps = [id |-> Str("1"), table |-> Str("other")]
    /\ mcalls[Len(mcalls)].payload = [id |-> Str("1"), table |-> Str("users")]

\* C21: whether a trigger of a guard is accepted depends on the published
\* loading of that guard alone: it is accepted, and its backend operation in
\* flight, also while other guards of the handle are loading; it leaves the
\* other guards as they were; and every create or update that succeeds is
\* reconciled whatever else is in flight.
C21_IndependentGuards ==
    [][/\ Len(mcalls') = Len(mcalls) + 1 =>
             LET c == mcalls'[Len(mcalls')]
             IN /\ c.invoked <=> ~methodPub[c.table][c.op].loading
                /\ c.invoked => c.st = "flight" /\ method'[c.table][c.op].loading
                /\ \A o \in Ops \ {c.op} : method'[c.table][o] = method[c.table][o]
       /\ \A i \in DOMAIN mcalls :
             (/\ MethodSettleStep(i, "ok") /\ mcalls[i].op \in {"create", "update"}
              /\ Identified(mcalls'[i].ret)) =>
                 ObjGet(index'[mcalls[i].table], KeyOf(mcalls'[i].ret.id)) = mcalls'[i].ret]_vars

C21_Witness ==
    /\ Len(mcalls) = 2
    /\ mcalls[1].op = "create" /\ mcalls[1].st = "flight"
    /\ methodPub["users"]["create"].loading
    /\ mcalls[2].op = "update" /\ mcalls[2].st = "flight"
    /\ method["users"]["update"].loading

\* C22: when an update and a remove of one table have both succeeded for
\* the same identity k, the one that resolved last decides: k is absent when
\* it was the remove, and k maps to the update's result when it was the
\* update.
C22_LastResolutionWins ==
    [][\A i, j \in DOMAIN mcalls :
          (/\ mcalls[i].op = "update" /\ mcalls[j].op = "remove"
           /\ mcalls[i].table = mcalls[j].table
           /\ mcalls'[i].settled = "ok" /\ mcalls'[j].settled = "ok"
           /\ MethodSettleStep(i, "ok") \/ MethodSettleStep(j, "ok")
           /\ Identified(mcalls'[i].ret) /\ Identified(mcalls'[j].ret)
           /\ mcalls'[i].ret.id = mcalls'[j].ret.id) =>
              LET t == mcalls[i].table
                  k == KeyOf(mcalls'[i].ret.id)
              IN IF MethodSettleStep(j, "ok")
                 THEN ~ObjHas(index'[t], k)
                 ELSE ObjHas(index'[t], k) /\ ObjGet(index'[t], k) = mcalls'[i].ret]_vars

\* The update was triggered first and resolved last: the two overlapped.
C22_Witness ==
    /\ Len(mcalls) = 2
    /\ mcalls[1].op = "update" /\ mcalls[1].settled = "ok"
    /\ mcalls[2].op = "remove" /\ mcalls[2].settled = "ok"
    /\ mcalls[1].ret = Ent(Str("1"), "y") /\ mcalls[2].ret = Ent(Str("1"), "y")
    /\ ObjGet(index["users"], "1") = Ent(Str("1"), "y")

----------------------------------------------------------------------------
(* Claims about Providers and Accessors, checked under SpecContext *)

\* C23: an Accessor made by createContextFromHook that is called with no
\* enclosing Provider of its binding fails with an error; it never returns
\* undefined or a default.
C23_AccessorFailsFast ==
    (access.ctx \in HookContexts /\ ~access.enclosed) => access.outcome = "throw"

\* C24: useFields called outside a FieldsProvider throws 'useFields must be
\* used within a FieldsProvider', useForm called outside a FormProvider throws
\* 'useForm must be used within a FormProvider', and inside their Provider
\* both return.
C24_FieldsAndFormThrowOutside ==
    /\ access.ctx = "FieldsContext" =>
          IF access.enclosed THEN access.outcome = "return" /\ access.val \in ProvidedValues
          ELSE /\ access.outcome = "throw"
               /\ access.val = Err("useFields must be used within a FieldsProvider")
    /\ access.ctx = "FormContext" =>
          IF access.enclosed THEN access.outcome = "return" /\ access.val \in ProvidedValues
          ELSE /\ access.outcome = "throw"
               /\ access.val = Err("useForm must be used within a FormProvider")

C24_Witness ==
    /\ access.ctx = "FieldsContext"
    /\ access.outcome = "throw"
    /\ providers # <<>>
    /\ \A i \in DOMAIN providers : providers[i].ctx = "FormContext"

\* C25: with Providers of several bindings nested, an Accessor called inside
\* a Provider of its binding returns the value of the innermost Provider of
\* that binding, whatever Providers of other bindings (also of the same hook)
\* are nearer.
C25_NearestOfSameBinding ==
    [][(access' # access /\ access'.enclosed) =>
          \E i \in DOMAIN providers :
              /\ providers[i].ctx = access'.ctx
              /\ \A j \in DOMAIN providers : providers[j].ctx = access'.ctx => j <= i
              /\ access'.outcome = "return"
              /\ access'.val = providers[i].value]_vars

C25_Witness ==
    /\ providers = <<[ctx |-> "ContextA1", value |-> Str("v1")],
                     [ctx |-> "ContextA2", value |-> Str("v2")]>>
    /\ access.ctx = "ContextA1"
    /\ access.val = Str("v1")

----------------------------------------------------------------------------
(* Claims about unmounting, checked under SpecUnmount *)

\* C26: once the provider owning the guards and the index is unmounted, the
\* resolution of an operation that was in flight, success or failure, writes
\* neither loading, error, result nor the index.
C26_NoWriteAfterUnmount ==
    [][unmounted => (method' = method /\ index' = index)]_vars

----------------------------------------------------------------------------
(* Claims about operations awaited one at a time, checked under SpecSequential *)

\* An index as the mapping from identity to entity it stands for.
AsMap(idx) == [k \in ObjKeySet(idx) |-> ObjGet(idx, k)]

\* The reconciliation rules, on mappings: create and update upsert a result
\* that has an identity, remove deletes the identity of its result, list
\* replaces the mapping by the result entries keyed by identity.
RuleUpsert(m, e) == [k \in (DOMAIN m) \cup {KeyOf(e.id)} |-> IF k = KeyOf(e.id) THEN e ELSE m[k]]
RuleDelete(m, e) == [k \in (DOMAIN m) \ {KeyOf(e.id)} |-> m[k]]
RuleReplace(es) == [k \in {KeyOf(es[i].id) : i \in DOMAIN es} |-> LastArgFor(es, k)]

ApplyRule(m, c) ==
    CASE c.settled # "ok" -> m
      [] c.op \in {"create", "update"} -> IF Identified(c.ret) THEN RuleUpsert(m, c.ret) ELSE m
      [] c.op = "remove" -> IF Identified(c.ret) THEN RuleDelete(m, c.ret) ELSE m
      [] c.op = "list" -> IF c.ret.tag = "arr" THEN RuleReplace(c.ret.a) ELSE m
      [] OTHER -> m

RECURSIVE ApplyRules(_, _)
ApplyRules(m, cs) == IF cs = <<>> THEN m ELSE ApplyRules(ApplyRule(m, Head(cs)), Tail(cs))

\* C27: when create, update, remove and list are triggered one at a time,
\* each resolved before the next, and all succeed, then whenever nothing is
\* in flight the index of the table is the initial index with the
\* reconciliation rules applied in the order of the calls.
C27_SequentialReconciliation ==
    InFlight(mcalls) = {} =>
        \A t \in DOMAIN index :
            AsMap(index[t]) =
                ApplyRules(AsMap(asAbove[t]), SelectSeq(mcalls, LAMBDA c : c.table = t))

\* empty, create, update, remove of one identity: the array ends empty
C27_Witness ==
    /\ asAbove["users"] = <<>>
    /\ Len(mcalls) = 3
    /\ mcalls[1].op = "create" /\ mcalls[2].op = "update" /\ mcalls[3].op = "remove"
    /\ \A i \in 1..3 : mcalls[i].settled = "ok" /\ mcalls[i].ret = Ent(Str("2"), "x")
    /\ Len(IndexArray(index["users"])) = 0

----------------------------------------------------------------------------
(* Claims about StoreProvider, checked under SpecStore *)

\* C28: the store StoreProvider publishes for a table given a list of n
\* entities with distinct ids has an array of length n holding the entities
\* in the given order, and has each of them in index under its id.
C28_StoreHoldsGivenEntities ==
    storeLast.op = "provider" =>
        /\ Len(IndexArray(store)) = Len(storeLast.args)
        /\ IndexArray(store) = storeLast.args
        /\ \A i \in DOMAIN storeLast.args :
               ObjGet(store, KeyOf(storeLast.args[i].id)) = storeLast.args[i]

----------------------------------------------------------------------------
(* Claims about SingleProvider, checked under SpecSingle *)

\* C29: when the index of the table has k at mount, SingleProvider
\* publishes that entity and calls no find.trigger, then or later; when it has
\* not, the mount calls find.trigger once, with {id: k}, and never again;
\* the entity that call resolves to becomes single, and the next render
\* publishes it.
C29_SingleProvider ==
    [][/\ (~singleMounted /\ singleMounted') =>
             LET t == singleProps.table
                 k == singleProps.id
             IN IF ObjHas(index[t], k)
                THEN /\ singlePub' = ObjGet(index[t], k)
                     /\ children'
                     /\ mcalls' = mcalls
                     /\ singleCall' = 0
                ELSE /\ Len(mcalls') = Len(mcalls) + 1
                     /\ singleCall' = Len(mcalls')
                     /\ mcalls'[singleCall'].op = "find"
                     /\ mcalls'[singleCall'].table = t
                     /\ lastProps' = [id |-> Str(k)]
                     /\ mcalls'[singleCall'].invoked =>
                            mcalls'[singleCall'].payload.id = Str(k)
       /\ singleMounted => singleCall' = singleCall
       /\ (singleCall # 0 /\ MethodSettleStep(singleCall, "ok"))
             => single' = mcalls'[singleCall].ret
       /\ (singleMounted /\ singlePub' # singlePub) => singlePub' = single]_vars

C29_Witness ==
    /\ singleProps.id = "2"
    /\ ~ObjHas(asAbove["users"], "2")
    /\ singleCall # 0
    /\ mcalls[singleCall].payload.id = Str("2")
    /\ mcalls[singleCall].settled = "ok"
    /\ mcalls[singleCall].ret = Ent(Str("2"), "x")
    /\ singlePub = Ent(Str("2"), "x")
    /\ children

----------------------------------------------------------------------------
(* Claims about FormProvider, checked under SpecForm *)

FormSubmitStep == Len(submits') = Len(submits) + 1 /\ submits'[Len(submits')].called

FormSettleStep(i, how) ==
    /\ i \in DOMAIN submits
    /\ submits[i].st = "flight"
    /\ submits'[i].st = how

\* C32: a submit calls onSubmit with the fields of the form and sets
\* loading; loading is true as long as an onSubmit has not settled; when
\* onSubmit resolves to r the form has result r, error null, loading false.
C32_SubmitSuccess ==
    [][/\ FormSubmitStep =>
            /\ submits'[Len(submits')].fields = fieldsPub
            /\ form'.loading
       /\ InFlight(submits') # {} => form'.loading
       /\ \A i \in DOMAIN submits :
            FormSettleStep(i, "fulfilled") =>
                /\ form'.result = submits'[i].val
                /\ form'.error = Null
                /\ ~form'.loading]_vars

\* C33: when onSubmit rejects with e the form has error e, the result it
\* had, loading false, and submit rejects with e; every submit sets error
\* to null when it starts.
C33_SubmitFailure ==
    [][/\ \A i \in DOMAIN submits :
            FormSettleStep(i, "rejected") =>
                /\ form'.error = submits'[i].val
                /\ form'.error.tag = "err"
                /\ form'.result = form.result
                /\ ~form'.loading
                /\ submits'[i].ret = submits'[i].val
       /\ Len(submits') = Len(submits) + 1 => form'.error = Null]_vars

C33_Witness ==
    /\ Len(submits) = 2
    /\ submits[1].st = "fulfilled" /\ submits[1].val = Str("success")
    /\ submits[2].st = "rejected" /\ submits[2].ret = Err("Submission failed")
    /\ formPub = [result |-> Str("success"), loading |-> FALSE,
                  error |-> Err("Submission failed")]

----------------------------------------------------------------------------
(* Claims about CreateForm, checked under SpecCreateForm *)

\* C31: onSuccess of CreateForm is called only in a step in which the
\* create call of a submit succeeds, with the entity that call returned; it
\* is never called with undefined, nor for a create that was dropped or failed.
C31_OnSuccessAfterCreate ==
    [][formLog' # formLog =>
          \E i \in DOMAIN mcalls :
              /\ mcalls[i].op = "create"
              /\ MethodSettleStep(i, "ok")
              /\ \E j \in DOMAIN submits : submits[j].call = i
              /\ formLog' = Append(formLog, mcalls'[i].ret)
              /\ mcalls'[i].ret # Undefined]_vars

----------------------------------------------------------------------------
(* Further claims about the table handle, checked under SpecTable *)

\* C34: the failure of a create, update, remove or list leaves the index
\* as it is, and so does the call of a trigger: the index changes only in
\* a step in which an operation other than find resolves, so after a failure
\* it is what it was before the trigger unless such a step came in between.
C34_FailureLeavesIndex ==
    [][/\ \A i \in DOMAIN mcalls :
            (MethodSettleStep(i, "fail") /\ mcalls[i].op # "find") => index' = index
       /\ Len(mcalls') = Len(mcalls) + 1 => index' = index
       /\ index' # index =>
            \E i \in DOMAIN mcalls :
                MethodSettleStep(i, "ok") /\ mcalls[i].op # "find"]_vars

C34_Witness ==
    /\ Len(mcalls) = 2
    /\ mcalls[1].op = "update" /\ mcalls[1].settled = "fail"
    /\ mcalls[2].op = "list" /\ mcalls[2].settled = "fail"
    /\ index["users"] = asAbove["users"]
    /\ index["users"] # <<>>
    /\ method["users"]["list"].error = Err("failed")

----------------------------------------------------------------------------
(* Further claims about useAction, checked under SpecAction *)

\* the step in which the action of call i succeeds
ActionSuccessStep(i) ==
    /\ i \in DOMAIN calls
    /\ calls[i].invoked
    /\ calls[i].settled = "none"
    /\ calls'[i].settled = "ok"

\* C35: with onSuccess configured, the step in which the action of an
\* accepted trigger succeeds calls onSuccess once, with the result trigger
\* returns; no other step calls it: not a dropped trigger, not a failure.
C35_OnSuccessOncePerSuccess ==
    [][/\ \A i \in DOMAIN calls :
            (ActionSuccessStep(i) /\ cfg.onSuccess) =>
                /\ successLog' = Append(successLog, calls'[i].ret)
                /\ calls'[i].st = "fulfilled"
       /\ successLog' # successLog => \E i \in DOMAIN calls : ActionSuccessStep(i)
       /\ Len(successLog') <= Cardinality({i \in DOMAIN calls' : calls'[i].settled = "ok"})]_vars

C35_Witness ==
    /\ cfg.onSuccess
    /\ Len(calls) = 2
    /\ \E i, j \in DOMAIN calls :
          /\ calls[i].settled = "fail"
          /\ calls[j].settled = "ok"
          /\ successLog = <<calls[j].ret>>
          /\ calls[j].ret = Str("success")

----------------------------------------------------------------------------
(* Claims about two table handles, checked under SpecTwoTables *)

\* the step is the call, the success or the failure of call i of a trigger
MethodStepOf(i) ==
    \/ i = Len(mcalls') /\ Len(mcalls') = Len(mcalls) + 1
    \/ i \in DOMAIN mcalls /\ Len(mcalls') = Len(mcalls) /\ mcalls'[i] # mcalls[i]

\* C36: the loading, error and result of the guard of operation op of
\* table t change only in a step of a call of that guard (its accept, its
\* success, its failure; a drop changes nothing), and the index of table t
\* changes only when an operation on table t succeeds.
C36_GuardsIsolated ==
    [][\A t \in DOMAIN method :
          /\ \A op \in Ops :
                method'[t][op] # method[t][op] =>
                    \E i \in DOMAIN mcalls' :
                        /\ MethodStepOf(i)
                        /\ mcalls'[i].table = t
                        /\ mcalls'[i].op = op
                        /\ mcalls'[i].invoked
          /\ index'[t] # index[t] =>
                \E i \in DOMAIN mcalls :
                    MethodSettleStep(i, "ok") /\ mcalls[i].table = t]_vars

C36_Witness ==
    /\ Len(mcalls) = 2
    /\ mcalls[1].table = "users" /\ mcalls[1].op = "create" /\ mcalls[1].settled = "ok"
    /\ mcalls[2].table = "posts" /\ mcalls[2].op = "create" /\ mcalls[2].settled = "fail"
    /\ index["users"] # asAbove["users"]
    /\ index["posts"] = asAbove["posts"]
    /\ method["users"]["create"].error = Null
    /\ method["posts"]["create"].result = Undefined
    /\ method["users"]["update"] = MethodInitial

----------------------------------------------------------------------------
(* Claims about the keys of the index, checked under SpecKeys *)

\* C37: every key k of the index of a table maps to an entity whose id is
\* k (the id as the property key it was stored under), so no identity is held
\* under two keys.
C37_KeysAreIdentities ==
    \A t \in DOMAIN index :
        /\ \A n \in 1..Len(index[t]) :
              /\ index[t][n].val.tag = "ent"
              /\ KeyOf(index[t][n].val.id) = index[t][n].key
              /\ Identified(index[t][n].val) => index[t][n].val.id = Str(index[t][n].key)
        /\ \A n, m \in 1..Len(index[t]) :
              index[t][n].val.id = index[t][m].val.id => n = m

C37_Witness ==
    /\ Len(mcalls) = 2
    /\ mcalls[1].op = "list" /\ mcalls[1].settled = "ok" /\ mcalls[1].ret.tag = "arr"
    /\ mcalls[2].op = "update" /\ mcalls[2].settled = "ok"
    /\ KeySeq(index["users"]) = <<"1", "2", "a">>
    /\ ObjGet(index["users"], "1") = Ent(Str("1"), "y")

----------------------------------------------------------------------------
(* Claims about loading, checked under SpecTable *)

\* C38: the loading of a guard is true exactly when an invocation of its
\* wrapped operation is in flight.
C38_LoadingIffInFlight ==
    \A t \in DOMAIN method : \A op \in Ops :
        method[t][op].loading <=>
            \E i \in InFlight(mcalls) : mcalls[i].table = t /\ mcalls[i].op = op


\* C39: when a create and an update of one table handle both succeed, with
\* results of different identities, and no other call of the handle has
\* succeeded, the index holds both results from the step on in which the
\* second of them resolves, whichever it is.
C39_NoLostUpdate ==
    [][\A i, j \in DOMAIN mcalls :
          (/\ MethodSettleStep(i, "ok")
           /\ mcalls[j].settled = "ok"
           /\ mcalls[i].table = mcalls[j].table
           /\ {mcalls[i].op, mcalls[j].op} = {"create", "update"}
           /\ Identified(mcalls'[i].ret) /\ Identified(mcalls[j].ret)
           /\ mcalls'[i].ret.id # mcalls[j].ret.id
           /\ \A k \in DOMAIN mcalls \ {i, j} : mcalls[k].settled # "ok")
          => LET idx == index'[mcalls[i].table]
             IN /\ ObjGet(idx, KeyOf(mcalls'[i].ret.id)) = mcalls'[i].ret
                /\ ObjGet(idx, KeyOf(mcalls[j].ret.id)) = mcalls[j].ret]_vars

\* both guards were published as loading together, so the calls overlapped
C39_Witness ==
    /\ Len(mcalls) = 2
    /\ mcalls[1].op = "create" /\ mcalls[1].settled = "ok"
    /\ mcalls[2].op = "update" /\ mcalls[2].settled = "ok"
    /\ mcalls[1].ret = Ent(Str("2"), "x")
    /\ mcalls[2].ret = Ent(Str("1"), "y")
    /\ methodPub["users"]["create"].loading
    /\ methodPub["users"]["update"].loading
    /\ ObjGet(index["users"], "2") = Ent(Str("2"), "x")
    /\ ObjGet(index["users"], "1") = Ent(Str("1"), "y")

----------------------------------------------------------------------------
(* Claims about SingleProvider, checked under SpecSingleLive *)

\* C40: a SingleProvider that found its identity absent at mount, and so
\* called find.trigger, eventually publishes an entity and renders its
\* children, whatever the find guard published at mount.
C40_EventuallyPublishes ==
    (singleMounted /\ singleCall # 0) ~> (children /\ singlePub.tag = "ent")

====
